---- MODULE Spec2Model ----
(***************************************************************************)
(* State-machine model of scrapy_selenium.middlewares.SeleniumMiddleware:  *)
(* the driver (session) lifecycle -- __init__, from_crawler,               *)
(* replace_driver, spider_closed -- and the request-execution protocol of  *)
(* process_request.                                                        *)
(*                                                                         *)
(* The selenium WebDriver is an external collaborator.  Each of its calls  *)
(* that can fail takes its outcome as an input of the action that makes    *)
(* the call; a call on a session that was quit raises.                     *)
(*                                                                         *)
(* Lines 76-77 of middlewares.py are read with line 77 nested under the    *)
(* `if` of line 76 (the firefox profile is not part of the model).         *)
(***************************************************************************)
EXTENDS Integers, Sequences, FiniteSets, TLC

\* Number of sessions the backend may be asked to create in one run.
MaxSessions == 2

\* Number of callers that may invoke process_request.
MaxTasks == 1

Sessions == 1..MaxSessions
Tasks == 1..MaxTasks

VARIABLES
    phase,      \* "new" (no instance yet), "ready" (instance built), "failed"
    conf,       \* the constructor arguments / crawler settings of the run
    driver,     \* self.driver: a session id, 0 while the attribute is absent
    created,    \* number of sessions the backend has created so far
    alive,      \* the sessions that are alive (created and not quit)
    jar,        \* jar[s]: the cookie names present on session s
    page,       \* page[s]: the URL loaded in session s, "blank" at creation
    hook,       \* hook[s]: s.replace_driver is bound to the middleware
    connected,  \* spider_closed is connected to signals.spider_closed
    task,       \* task[t]: the locals of caller t inside process_request
    event,      \* the outcome of the most recent call or step
    scriptErrOn,\* the session on which the last completed call, if it was a
                \* process_request, failed in its script; else 0
    lifecycle,  \* "open"; "closed" once spider_closed has been called;
                \* "shutdown" once the crawler has sent signals.spider_closed
    builtBy     \* how the instance was built: "__init__" (called directly),
                \* "from_crawler", or "none" while there is no instance

vars ==
    <<phase, conf, driver, created, alive, jar, page, hook, connected, task, event,
      scriptErrOn, lifecycle, builtBy>>

----------------------------------------------------------------------------
(* Inputs *)

DriverNames == {"None", "chrome"}
Paths == {"None", "/usr/bin/chromedriver"}
Executors == {"None", "http://hub:4444/wd/hub"}
Urls == {"u1", "u2"}
CookieMaps == {<< >>, <<"b", "a">>}

\* request objects handed to process_request; selenium = isinstance(request, SeleniumRequest)
SeleniumRequests ==
    [selenium : {TRUE}, url : Urls, cookies : CookieMaps,
     wait_until : BOOLEAN, screenshot : BOOLEAN, script : BOOLEAN]
\* a plain scrapy Request has no wait_until, screenshot or script
PlainRequests ==
    [selenium : {FALSE}, url : Urls, cookies : CookieMaps,
     wait_until : {FALSE}, screenshot : {FALSE}, script : {FALSE}]
Requests == SeleniumRequests \cup PlainRequests

\* spider.settings: DOWNLOAD_DELAY in tenths of a second, RANDOMIZE_DOWNLOAD_DELAY
SpiderSettings == [DOWNLOAD_DELAY : {0, 10}, RANDOMIZE_DOWNLOAD_DELAY : {FALSE}]

\* the draw of random.uniform(lo, hi): lo, the midpoint or hi
Draws == {0, 1, 2}

NoReq ==
    [selenium |-> FALSE, url |-> "u1", cookies |-> << >>,
     wait_until |-> FALSE, screenshot |-> FALSE, script |-> FALSE]
NoSettings == [DOWNLOAD_DELAY |-> 0, RANDOMIZE_DOWNLOAD_DELAY |-> FALSE]
\* request.meta without the keys 'screenshot' (<< >>) and 'driver' (0)
NoMeta == [screenshot |-> << >>, driver |-> 0]

\* the locals of one execution of process_request; alone records, for the
\* properties, that no other execution has been in flight during this one
IdleTask ==
    [pc |-> "idle", req |-> NoReq, settings |-> NoSettings, delay |-> 0,
     trace |-> << >>, meta |-> NoMeta, alone |-> TRUE]

NoResponse == [url |-> "", body |-> << >>, encoding |-> "", meta |-> NoMeta]

NoEvent == [op |-> "none", res |-> "none"]

----------------------------------------------------------------------------
(* replace_driver *)

\* replace_driver forgetting line 84: the held session is purged, never quit
TeardownOldKeepsSession(purge, quit) ==
    IF driver = 0 \/ driver \notin alive \/ purge = "raise"
    THEN [raised |-> driver # 0, err |-> IF driver = 0 THEN "" ELSE "WebDriverException",
          alive |-> alive, jar |-> jar, page |-> page]
    ELSE [raised |-> FALSE, err |-> "", alive |-> alive,
          jar |-> [jar EXCEPT ![driver] = {}], page |-> page]

\* lines 82-84: purge and quit the held session.  purge, quit are the
\* outcomes of delete_all_cookies() and quit(); a quit that raises leaves
\* the browser running ("raise_alive") or not ("raise_dead").
TeardownOld(purge, quit) ==
    IF driver = 0
    THEN [raised |-> FALSE, err |-> "", alive |-> alive, jar |-> jar, page |-> page]
    ELSE IF driver \notin alive \/ purge = "raise"
    THEN [raised |-> TRUE, err |-> "WebDriverException",
          alive |-> alive, jar |-> jar, page |-> page]
    ELSE [raised |-> quit # "ok",
          err |-> IF quit = "ok" THEN "" ELSE "WebDriverException",
          alive |-> IF quit = "raise_alive" THEN alive ELSE alive \ {driver},
          jar |-> [jar EXCEPT ![driver] = {}],
          page |-> IF quit = "raise_alive" THEN page
                   ELSE [page EXCEPT ![driver] = "closed"]]

\* lines 86-108: create the new session from the stored descriptor.
\* launch is the outcome of the backend's constructor.
CreateSession(launch) ==
    IF conf.executable_path # "None"
    THEN IF launch = "ok"
         THEN [raised |-> FALSE, err |-> "", new |-> created + 1]
         ELSE [raised |-> TRUE, err |-> "WebDriverException", new |-> 0]
    ELSE IF conf.command_executor # "None"
    THEN \* line 104 reads self._driver_name_options, an attribute never set
         [raised |-> TRUE, err |-> "AttributeError", new |-> 0]
    ELSE [raised |-> FALSE, err |-> "", new |-> 0]

\* replace_driver without line 110
HookNotInstalled(h, d) == h

\* line 110: self.driver.replace_driver = self.replace_driver
InstallHook(h, d) == [h EXCEPT ![d] = TRUE]

\* lines 81-112: the whole of replace_driver, as the values it leaves in the
\* state and its outcome.
ReplaceDriver(purge, quit, launch) ==
    LET old == TeardownOld(purge, quit)
        mk == CreateSession(launch)
        base == [driver |-> driver, created |-> created, alive |-> old.alive,
                 jar |-> old.jar, page |-> old.page, hook |-> hook,
                 res |-> "raise", err |-> old.err, ret |-> 0,
                 held |-> driver, live |-> driver \in alive,
                 purge |-> purge, quit |-> quit, launch |-> launch]
    IN  IF old.raised THEN base
        ELSE IF mk.raised THEN [base EXCEPT !.err = mk.err]
        ELSE LET d == IF mk.new # 0 THEN mk.new ELSE driver IN
             IF d = 0
             THEN \* line 110: self.driver does not exist
                  [base EXCEPT !.err = "AttributeError"]
             ELSE [base EXCEPT
                     !.driver = d,
                     !.created = IF mk.new # 0 THEN mk.new ELSE created,
                     !.alive = IF mk.new # 0 THEN old.alive \cup {mk.new} ELSE old.alive,
                     !.hook = InstallHook(hook, d),
                     !.res = "return", !.err = "", !.ret = d]

ReplaceEvent(op, r) ==
    [op |-> op, res |-> r.res, err |-> r.err, ret |-> r.ret, held |-> r.held,
     live |-> r.live, purge |-> r.purge, quit |-> r.quit, launch |-> r.launch]

PurgeOutcomes == {"ok", "raise"}
QuitOutcomes == {"ok", "raise_dead", "raise_alive"}
LaunchOutcomes == {"ok", "raise"}

AllIdle == \A t \in Tasks : task[t].pc = "idle"

\* lines 18-79: SeleniumMiddleware(...) called directly
Construct ==
    /\ phase = "new"
    /\ \E launch \in LaunchOutcomes :
         IF conf.driver_name = "None"
         THEN \* line 52: import_module('selenium.webdriver.None.webdriver')
              /\ phase' = "failed"
              /\ event' = [op |-> "__init__", res |-> "raise", err |-> "ModuleNotFoundError"]
              /\ UNCHANGED <<driver, created, alive, jar, page, hook, builtBy>>
         ELSE LET r == ReplaceDriver("ok", "ok", launch) IN
              /\ phase' = IF r.res = "return" THEN "ready" ELSE "failed"
              /\ driver' = r.driver
              /\ created' = r.created
              /\ alive' = r.alive
              /\ jar' = r.jar
              /\ page' = r.page
              /\ hook' = r.hook
              /\ event' = ReplaceEvent("__init__", r)
              /\ builtBy' = IF r.res = "return" THEN "__init__" ELSE "none"
    /\ UNCHANGED <<conf, connected, task, scriptErrOn, lifecycle>>

\* from_crawler checking the driver name only
ConfigCheckNameOnly == conf.driver_name = "None"

\* lines 128-133: the settings from_crawler refuses
ConfigMissing ==
    \/ conf.driver_name = "None"
    \/ (conf.executable_path = "None" /\ conf.command_executor = "None")

\* from_crawler without line 147
NeverConnects(r) == FALSE

\* line 147, reached when the constructor of line 135 returned
Connects(r) == r.res = "return"

\* lines 114-149
FromCrawler ==
    /\ phase = "new"
    /\ \E launch \in LaunchOutcomes :
         IF ConfigMissing
         THEN /\ phase' = "failed"
              /\ event' = [op |-> "from_crawler", res |-> "raise", err |-> "NotConfigured"]
              /\ UNCHANGED <<driver, created, alive, jar, page, hook, connected, builtBy>>
         ELSE LET r == ReplaceDriver("ok", "ok", launch) IN
              /\ phase' = IF r.res = "return" THEN "ready" ELSE "failed"
              /\ driver' = r.driver
              /\ created' = r.created
              /\ alive' = r.alive
              /\ jar' = r.jar
              /\ page' = r.page
              /\ hook' = r.hook
              /\ connected' = Connects(r)
              /\ event' = ReplaceEvent("from_crawler", r)
              /\ builtBy' = IF r.res = "return" THEN "from_crawler" ELSE "none"
    /\ UNCHANGED <<conf, task, scriptErrOn, lifecycle>>

\* lines 81-112: replace_driver called on the built middleware (directly or
\* through the hook of line 110)
ReplaceDriverCall ==
    /\ phase = "ready"
    /\ lifecycle = "open"
    /\ AllIdle
    /\ created < MaxSessions
    /\ \E purge \in PurgeOutcomes, quit \in QuitOutcomes, launch \in LaunchOutcomes :
         LET r == ReplaceDriver(purge, quit, launch) IN
         /\ driver' = r.driver
         /\ created' = r.created
         /\ alive' = r.alive
         /\ jar' = r.jar
         /\ page' = r.page
         /\ hook' = r.hook
         /\ event' = ReplaceEvent("replace_driver", r) @@ [via |-> "call", ref |-> 0]
    /\ scriptErrOn' = 0
    /\ UNCHANGED <<phase, conf, connected, task, lifecycle, builtBy>>

\* line 110 at work: the receiver of a response calls
\* response.meta['driver'].replace_driver(), the bound method of the
\* middleware
HookCall ==
    /\ phase = "ready"
    /\ lifecycle = "open"
    /\ AllIdle
    /\ created < MaxSessions
    /\ event.op = "process_request" /\ event.value = "HtmlResponse"
    /\ hook[event.resp.meta.driver]
    /\ \E purge \in PurgeOutcomes, quit \in QuitOutcomes, launch \in LaunchOutcomes :
         LET r == ReplaceDriver(purge, quit, launch) IN
         /\ driver' = r.driver
         /\ created' = r.created
         /\ alive' = r.alive
         /\ jar' = r.jar
         /\ page' = r.page
         /\ hook' = r.hook
         /\ event' = ReplaceEvent("replace_driver", r)
                        @@ [via |-> "hook", ref |-> event.resp.meta.driver]
    /\ scriptErrOn' = 0
    /\ UNCHANGED <<phase, conf, connected, task, lifecycle, builtBy>>

----------------------------------------------------------------------------
(* process_request *)

\* process_request without the type check of line 154
TypeCheckSkipped(req) == TRUE

\* line 154
IsSeleniumRequest(req) == req.selenium

\* line 157: settings.getint('DOWNLOAD_DELAY'), whole seconds
GetInt(tenths) == tenths \div 10

\* lines 157-162: the time slept before the first session call, in tenths of
\* a second; u is the draw of random.uniform(0.5 * delay, 1.5 * delay)
Pacing(st, u) ==
    LET delay == GetInt(st.DOWNLOAD_DELAY) IN
    IF delay = 0 THEN 0
    ELSE IF st.RANDOMIZE_DOWNLOAD_DELAY
    THEN 5 * delay + u * 5 * delay
    ELSE 10 * delay

Op(name, arg) == [op |-> name, arg |-> arg]

RECURSIVE CookieOps(_)
CookieOps(cs) ==
    IF cs = << >> THEN << >>
    ELSE <<Op("add_cookie", Head(cs))>> \o CookieOps(Tail(cs))

Range(f) == {f[i] : i \in DOMAIN f}

Dead == driver \notin alive

\* the value a step leaves: the caller's locals, the session's cookie jar and
\* page, and, when the call is over, its outcome
Blocked(loc, at, jr, pg) ==
    [loc |-> [loc EXCEPT !.pc = at], jar |-> jr, page |-> pg,
     done |-> FALSE, res |-> "blocked", err |-> "", value |-> "none",
     resp |-> NoResponse]

RaisedRollsBack(loc, e, jr, pg) ==
    [loc |-> loc, jar |-> [jr EXCEPT ![driver] = {}], page |-> pg,
     done |-> TRUE, res |-> "raise", err |-> e, value |-> "none",
     resp |-> NoResponse]

\* the call raises e
Raised(loc, e, jr, pg) ==
    [loc |-> loc, jar |-> jr, page |-> pg,
     done |-> TRUE, res |-> "raise", err |-> e, value |-> "none",
     resp |-> NoResponse]

\* the call returns None (rsp = NoResponse) or the HtmlResponse rsp
Returned(loc, rsp, jr, pg) ==
    [loc |-> loc, jar |-> jr, page |-> pg,
     done |-> TRUE, res |-> "return", err |-> "",
     value |-> IF rsp = NoResponse THEN "None" ELSE "HtmlResponse",
     resp |-> rsp]

\* line 185: str.encode(page_source) of the page at url u
Encode(u) == <<"utf-8", u>>

\* line 180: the PNG of the frame showing the page at url u
Png(u) == <<"png", u>>

\* a response stamped with the requested URL instead of current_url
ExtractRequestUrl(loc, jr, pg) ==
    LET l1 == [loc EXCEPT !.trace = Append(@, Op("page_source", ""))] IN
    IF Dead THEN Raised(l1, "WebDriverException", jr, pg)
    ELSE LET l2 == [l1 EXCEPT !.meta.driver = driver,
                              !.trace = Append(@, Op("current_url", ""))]
         IN Returned(l2,
                     [url |-> loc.req.url, body |-> Encode(pg[driver]),
                      encoding |-> "utf-8", meta |-> l2.meta],
                     jr, pg)

\* lines 185-195: extraction and response construction
Extract(loc, jr, pg) ==
    LET l1 == [loc EXCEPT !.trace = Append(@, Op("page_source", ""))] IN
    IF Dead THEN Raised(l1, "WebDriverException", jr, pg)
    ELSE LET l2 == [l1 EXCEPT !.meta.driver = driver,
                              !.trace = Append(@, Op("current_url", ""))]
         IN Returned(l2,
                     [url |-> pg[driver], body |-> Encode(pg[driver]),
                      encoding |-> "utf-8", meta |-> l2.meta],
                     jr, pg)

\* lines 182-183: start the script, or go on to extraction
StartScript(loc, jr, pg) ==
    IF loc.req.script
    THEN Blocked([loc EXCEPT !.trace = Append(@, Op("execute_script", ""))],
                 "script", jr, pg)
    ELSE Extract(loc, jr, pg)

\* a screenshot captured whether or not the request asked for one
AfterWaitAlwaysShot(loc, jr, pg) ==
    LET l1 == [loc EXCEPT !.trace = Append(@, Op("get_screenshot_as_png", ""))] IN
    IF Dead THEN Raised(l1, "WebDriverException", jr, pg)
    ELSE StartScript([l1 EXCEPT !.meta.screenshot = Png(pg[driver])], jr, pg)

\* lines 179-183: what follows the wait step
AfterWait(loc, jr, pg) ==
    IF loc.req.screenshot
    THEN LET l1 == [loc EXCEPT !.trace = Append(@, Op("get_screenshot_as_png", ""))] IN
         IF Dead THEN Raised(l1, "WebDriverException", jr, pg)
         ELSE StartScript([l1 EXCEPT !.meta.screenshot = Png(pg[driver])], jr, pg)
    ELSE StartScript(loc, jr, pg)

\* lines 174-177: start the wait, or go on
StartWait(loc, jr, pg) ==
    IF loc.req.wait_until
    THEN Blocked([loc EXCEPT !.trace = Append(@, Op("until", ""))], "wait", jr, pg)
    ELSE AfterWait(loc, jr, pg)

\* process_request navigating before it injects the cookies
CookiesAfterGet(loc, jr, pg) ==
    LET cs == loc.req.cookies IN
    Blocked([loc EXCEPT !.trace = @ \o <<Op("get", loc.req.url)>> \o CookieOps(cs)],
            "get",
            IF cs = << >> \/ Dead THEN jr ELSE [jr EXCEPT ![driver] = @ \cup Range(cs)],
            pg)

\* lines 164-172: cookie injection, then the call of driver.get
CookiesAndGet(loc, jr, pg) ==
    LET cs == loc.req.cookies IN
    IF cs # << >> /\ Dead
    THEN Raised([loc EXCEPT !.trace = Append(@, Op("add_cookie", Head(cs)))],
                "WebDriverException", jr, pg)
    ELSE Blocked([loc EXCEPT !.trace = @ \o CookieOps(cs) \o <<Op("get", loc.req.url)>>],
                 "get",
                 IF cs = << >> THEN jr ELSE [jr EXCEPT ![driver] = @ \cup Range(cs)],
                 pg)

\* lines 151-162: entry, type check and pacing
Enter(req, st, u) ==
    IF ~IsSeleniumRequest(req)
    THEN Returned([IdleTask EXCEPT !.req = req], NoResponse, jar, page)
    ELSE LET loc == [IdleTask EXCEPT !.req = req, !.settings = st]
             d == Pacing(st, u)
         IN  IF d # 0
             THEN Blocked([loc EXCEPT !.delay = d, !.trace = <<Op("sleep", "")>>],
                          "sleep", jar, page)
             ELSE CookiesAndGet(loc, jar, page)

\* the URL the browser ends on when a navigation to u is redirected
Redirected(u) == IF u = "u1" THEN "u1-final" ELSE "u2-final"

\* the outcomes of driver.get: the page at the URL is loaded, the page the
\* URL redirects to is loaded, or the call raises
NavOutcomes == {"ok", "redirect", "raise"}

\* a navigation that returns without loading anything
GetDoneNoLoad(loc, nav) ==
    IF Dead \/ nav = "raise" THEN Raised(loc, "WebDriverException", jar, page)
    ELSE StartWait(loc, jar, page)

\* line 172 returning: the navigation is complete or raised
GetDone(loc, nav) ==
    IF Dead \/ nav = "raise" THEN Raised(loc, "WebDriverException", jar, page)
    ELSE StartWait(loc, jar,
                   [page EXCEPT ![driver] =
                      IF nav = "redirect" THEN Redirected(loc.req.url)
                      ELSE loc.req.url])

\* a wait that captures a screenshot before it reports the timeout
WaitDoneShotOnTimeout(loc, cond) ==
    IF Dead THEN Raised(loc, "WebDriverException", jar, page)
    ELSE IF cond # "ok"
    THEN Raised([loc EXCEPT !.meta.screenshot = Png(page[driver]),
                            !.trace = Append(@, Op("get_screenshot_as_png", ""))],
                "TimeoutException", jar, page)
    ELSE AfterWait(loc, jar, page)

\* lines 175-177 returning: the condition became true or the wait timed out
WaitDone(loc, cond) ==
    IF Dead THEN Raised(loc, "WebDriverException", jar, page)
    ELSE IF cond # "ok" THEN Raised(loc, "TimeoutException", jar, page)
    ELSE AfterWait(loc, jar, page)

\* a script step that resets the browser when the script raises
ScriptDoneResets(loc, run) ==
    IF Dead THEN Raised(loc, "WebDriverException", jar, page)
    ELSE IF run # "ok"
    THEN Raised(loc, "JavascriptException",
                [jar EXCEPT ![driver] = {}], [page EXCEPT ![driver] = "blank"])
    ELSE Extract(loc, jar, page)

\* line 183 returning
ScriptDone(loc, run) ==
    IF Dead THEN Raised(loc, "WebDriverException", jar, page)
    ELSE IF run # "ok" THEN Raised(loc, "JavascriptException", jar, page)
    ELSE Extract(loc, jar, page)

\* process_request quitting the driver when a step raises
ApplyQuitOnError(t, m) ==
    /\ task' = [task EXCEPT ![t] = IF m.done THEN IdleTask ELSE m.loc]
    /\ jar' = m.jar
    /\ page' = m.page
    /\ alive' = IF m.res = "raise" THEN alive \ {driver} ELSE alive
    /\ event' = [op |-> "process_request", res |-> m.res, err |-> m.err,
                 value |-> m.value, resp |-> m.resp, loc |-> m.loc,
                 session |-> driver, prior |-> scriptErrOn]
    /\ scriptErrOn' = IF ~m.done THEN scriptErrOn
                      ELSE IF m.err = "JavascriptException" THEN driver ELSE 0
    /\ UNCHANGED <<phase, conf, driver, created, hook, connected, lifecycle,
                   builtBy>>

\* process_request creating a session when the held one is gone
ApplyRevives(t, m) ==
    LET make == Dead /\ created < MaxSessions IN
    /\ task' = [task EXCEPT ![t] = IF m.done THEN IdleTask ELSE m.loc]
    /\ jar' = m.jar
    /\ page' = m.page
    /\ created' = IF make THEN created + 1 ELSE created
    /\ driver' = IF make THEN created + 1 ELSE driver
    /\ alive' = IF make THEN alive \cup {created + 1} ELSE alive
    /\ event' = [op |-> "process_request", res |-> m.res, err |-> m.err,
                 value |-> m.value, resp |-> m.resp, loc |-> m.loc,
                 session |-> driver, prior |-> scriptErrOn]
    /\ scriptErrOn' = IF ~m.done THEN scriptErrOn
                      ELSE IF m.err = "JavascriptException" THEN driver ELSE 0
    /\ UNCHANGED <<phase, conf, hook, connected, lifecycle, builtBy>>

\* the state after a step of caller t with value m, the callers' locals
\* being tk
Step(tk, t, m) ==
    /\ task' = [tk EXCEPT ![t] = IF m.done THEN IdleTask ELSE m.loc]
    /\ jar' = m.jar
    /\ page' = m.page
    /\ event' = [op |-> "process_request", res |-> m.res, err |-> m.err,
                 value |-> m.value, resp |-> m.resp, loc |-> m.loc,
                 session |-> driver, prior |-> scriptErrOn]
    /\ scriptErrOn' = IF ~m.done THEN scriptErrOn
                      ELSE IF m.err = "JavascriptException" THEN driver ELSE 0
    /\ UNCHANGED <<phase, conf, driver, created, alive, hook, connected, lifecycle,
                   builtBy>>

\* the state after a step of caller t with value m
Apply(t, m) == Step(task, t, m)

Outcomes == {"ok", "raise"}

\* the settings are read only past the type check of line 154, and
\* random.uniform is called only on line 161
SettingsReadFrom(req, sts) == IF req.selenium THEN sts ELSE {NoSettings}
SettingsRead(req) == SettingsReadFrom(req, SpiderSettings)
DrawsMade(req, st) ==
    IF req.selenium /\ GetInt(st.DOWNLOAD_DELAY) # 0 /\ st.RANDOMIZE_DOWNLOAD_DELAY
    THEN Draws ELSE {0}

\* process_request is called: lines 151-172, up to its first blocking call.
\* The crawler hands over no request once the spider is closed.
Call(t) ==
    /\ phase = "ready"
    /\ lifecycle = "open"
    /\ AllIdle
    /\ \E req \in Requests :
         \E st \in SettingsRead(req) : \E u \in DrawsMade(req, st) :
           Apply(t, Enter(req, st, u))

\* DOWNLOAD_DELAY values of 0, 0.5, 1.0 and 1.5 seconds, with and without
\* RANDOMIZE_DOWNLOAD_DELAY
PacingSettings == [DOWNLOAD_DELAY : {0, 5, 10, 15}, RANDOMIZE_DOWNLOAD_DELAY : BOOLEAN]

\* requests that block nowhere but in the sleep and the navigation
PacingRequests ==
    [selenium : {TRUE}, url : Urls, cookies : CookieMaps,
     wait_until : {FALSE}, screenshot : {FALSE}, script : {FALSE}]

\* process_request called under any of the pacing settings
PacedCall(t) ==
    /\ phase = "ready"
    /\ lifecycle = "open"
    /\ AllIdle
    /\ \E req \in PacingRequests :
         \E st \in SettingsReadFrom(req, PacingSettings) :
           \E u \in DrawsMade(req, st) :
             Apply(t, Enter(req, st, u))

\* time.sleep returns: lines 164-172
Wake(t) ==
    /\ task[t].pc = "sleep"
    /\ Apply(t, CookiesAndGet(task[t], jar, page))

\* driver.get returns
Navigated(t) ==
    /\ task[t].pc = "get"
    /\ \E nav \in NavOutcomes : Apply(t, GetDone(task[t], nav))

\* WebDriverWait.until returns
Waited(t) ==
    /\ task[t].pc = "wait"
    /\ \E cond \in Outcomes : Apply(t, WaitDone(task[t], cond))

\* execute_script returns
Scripted(t) ==
    /\ task[t].pc = "script"
    /\ \E run \in Outcomes : Apply(t, ScriptDone(task[t], run))

----------------------------------------------------------------------------
(* spider_closed *)

\* lines 197-200: quit is the outcome of self.driver.quit()
SpiderClosedResult(quit) ==
    LET gone == quit # "raise_alive" IN
    [res |-> IF quit = "ok" THEN "return" ELSE "raise",
     err |-> IF quit = "ok" THEN "" ELSE "WebDriverException",
     alive |-> IF gone THEN alive \ {driver} ELSE alive,
     page |-> IF gone THEN [page EXCEPT ![driver] = "closed"] ELSE page]

\* the outcomes quit() can have on the held session: a quit of a session that
\* is gone returns or raises, as the backend's driver class decides
QuitChoices == IF Dead THEN {"ok", "raise_dead"} ELSE QuitOutcomes

\* spider_closed called directly
SpiderClosed ==
    /\ phase = "ready"
    /\ lifecycle # "shutdown"
    /\ AllIdle
    /\ \E quit \in QuitChoices :
         LET r == SpiderClosedResult(quit) IN
         /\ alive' = r.alive
         /\ page' = r.page
         /\ event' = [op |-> "spider_closed", res |-> r.res, err |-> r.err,
                      before |-> alive, session |-> driver, prev |-> event.op,
                      via |-> "call"]
    /\ scriptErrOn' = 0
    /\ lifecycle' = "closed"
    /\ UNCHANGED <<phase, conf, driver, created, jar, hook, connected, task, builtBy>>

\* the crawler sends signals.spider_closed, once, when the crawl ends: the
\* receiver connected on line 147, if any, is called
ShutdownSignal ==
    /\ phase # "new"
    /\ lifecycle # "shutdown"
    /\ AllIdle
    /\ lifecycle' = "shutdown"
    /\ IF connected
       THEN \E quit \in QuitChoices :
              LET r == SpiderClosedResult(quit) IN
              /\ alive' = r.alive
              /\ page' = r.page
              /\ event' = [op |-> "spider_closed", res |-> r.res, err |-> r.err,
                           before |-> alive, session |-> driver, prev |-> event.op,
                           via |-> "signal"]
       ELSE /\ event' = [op |-> "signal", res |-> "unheard", err |-> ""]
            /\ UNCHANGED <<alive, page>>
    /\ scriptErrOn' = 0
    /\ UNCHANGED <<phase, conf, driver, created, jar, hook, connected, task, builtBy>>

----------------------------------------------------------------------------

Init ==
    /\ phase = "new"
    /\ conf \in [driver_name : DriverNames, executable_path : Paths,
                 command_executor : Executors]
    /\ driver = 0
    /\ created = 0
    /\ alive = {}
    /\ jar = [s \in Sessions |-> {}]
    /\ page = [s \in Sessions |-> "blank"]
    /\ hook = [s \in Sessions |-> FALSE]
    /\ connected = FALSE
    /\ task = [t \in Tasks |-> IdleTask]
    /\ event = NoEvent
    /\ scriptErrOn = 0
    /\ lifecycle = "open"
    /\ builtBy = "none"

Next ==
    \/ Construct
    \/ FromCrawler
    \/ ReplaceDriverCall
    \/ HookCall
    \/ \E t \in Tasks : Call(t)
    \/ \E t \in Tasks : Wake(t)
    \/ \E t \in Tasks : Navigated(t)
    \/ \E t \in Tasks : Waited(t)
    \/ \E t \in Tasks : Scripted(t)
    \/ SpiderClosed
    \/ ShutdownSignal

Spec == Init /\ [][Next]_vars

\* the middleware under every pacing setting
NextPacing ==
    \/ FromCrawler
    \/ \E t \in Tasks : PacedCall(t)
    \/ \E t \in Tasks : Wake(t)
    \/ \E t \in Tasks : Navigated(t)

SpecPacing == Init /\ [][NextPacing]_vars

\* two executions of process_request on one middleware, as a host that calls
\* it from two threads or tasks makes them
ConcTasks == {1, 2}

\* caller 1 asks for u1 and caller 2 for u2
UrlOf(t) == IF t = 1 THEN "u1" ELSE "u2"
ConcRequests(t) ==
    [selenium : {TRUE}, url : {UrlOf(t)}, cookies : {<< >>},
     wait_until : BOOLEAN, screenshot : {FALSE}, script : BOOLEAN]

InFlight(t) == task[t].pc # "idle"

\* the callers' locals once caller t has entered: those in flight have met
\* another execution
Overlapped(t) ==
    [u \in DOMAIN task |->
       IF u # t /\ InFlight(u) THEN [task[u] EXCEPT !.alone = FALSE] ELSE task[u]]

\* process_request is called whatever the other caller is doing: nothing in
\* lines 151-195 takes a lock or checks for an execution in flight
ConcCall(t) ==
    /\ phase = "ready"
    /\ lifecycle = "open"
    /\ ~InFlight(t)
    /\ \E req \in ConcRequests(t) : \E st \in SettingsRead(req) :
         LET m == Enter(req, st, 0)
             met == \E u \in ConcTasks \ {t} : InFlight(u)
         IN  Step(Overlapped(t), t, [m EXCEPT !.loc.alone = ~met])

InitConc ==
    /\ phase = "new"
    /\ conf \in [driver_name : DriverNames, executable_path : Paths,
                 command_executor : Executors]
    /\ driver = 0
    /\ created = 0
    /\ alive = {}
    /\ jar = [s \in Sessions |-> {}]
    /\ page = [s \in Sessions |-> "blank"]
    /\ hook = [s \in Sessions |-> FALSE]
    /\ connected = FALSE
    /\ task = [t \in ConcTasks |-> IdleTask]
    /\ event = NoEvent
    /\ scriptErrOn = 0
    /\ lifecycle = "open"
    /\ builtBy = "none"

NextConc ==
    \/ FromCrawler
    \/ \E t \in ConcTasks : ConcCall(t)
    \/ \E t \in ConcTasks : Wake(t)
    \/ \E t \in ConcTasks : Navigated(t)
    \/ \E t \in ConcTasks : Waited(t)
    \/ \E t \in ConcTasks : Scripted(t)

SpecConc == InitConc /\ [][NextConc]_vars

----------------------------------------------------------------------------
(* Properties *)

ReplaceOps == {"__init__", "from_crawler", "replace_driver"}

\* replace_driver ran to its end (it is also the last statement of __init__)
Replaced == event.op \in ReplaceOps /\ event.res = "return"

IsPrefix(s, t) == Len(s) <= Len(t) /\ SubSeq(t, 1, Len(s)) = s

\* the session calls of one browser-fetch request, in the order of section 4.2
ExpectedTrace(loc) ==
    (IF loc.delay # 0 THEN <<Op("sleep", "")>> ELSE << >>)
    \o [i \in 1..Len(loc.req.cookies) |-> Op("add_cookie", loc.req.cookies[i])]
    \o <<Op("get", loc.req.url)>>
    \o (IF loc.req.wait_until THEN <<Op("until", "")>> ELSE << >>)
    \o (IF loc.req.screenshot THEN <<Op("get_screenshot_as_png", "")>> ELSE << >>)
    \o (IF loc.req.script THEN <<Op("execute_script", "")>> ELSE << >>)
    \o <<Op("page_source", ""), Op("current_url", "")>>

\* C1: at most one session created by the manager is alive, and whenever
\* replace_driver returns, every session created before the one it returns
\* is no longer alive.
C1_AtMostOneAlive ==
    /\ Cardinality(alive) <= 1
    /\ Replaced => \A s \in alive : s = event.ret

\* C1 witness: a replacement of a live session returned a new live session.
C1_Witness ==
    /\ event.op = "replace_driver" /\ event.res = "return"
    /\ event.held # 0 /\ event.live /\ event.ret # event.held
    /\ alive = {event.ret}

\* C2: a request that is not a SeleniumRequest makes process_request return
\* None at once, with no sleep and no session call, and leaves the request's
\* meta and the whole session state as they were.
C2_PlainRequestUntouched ==
    [][(event'.op = "process_request" /\ ~event'.loc.req.selenium) =>
          /\ event'.res = "return" /\ event'.value = "None"
          /\ event'.loc.trace = << >> /\ event'.loc.delay = 0
          /\ event'.loc.meta = NoMeta
          /\ UNCHANGED <<driver, created, alive, jar, page, hook, task>>]_vars

\* C2 witness: a plain request was passed through while the live session
\* held cookies and a loaded page.
C2_Witness ==
    /\ event.op = "process_request" /\ ~event.loc.req.selenium
    /\ event.value = "None"
    /\ driver \in alive /\ jar[driver] # {} /\ page[driver] \in Urls

ExactlyOnePath ==
    (conf.executable_path = "None") # (conf.command_executor = "None")

NeitherPath ==
    conf.executable_path = "None" /\ conf.command_executor = "None"

\* C3: with a valid descriptor that sets exactly one of executable_path and
\* command_executor, and a backend that launches, replace_driver returns a
\* live session which is the one the manager holds.
C3_ExactlyOnePathYieldsLiveSession ==
    (/\ conf.driver_name # "None" /\ ExactlyOnePath
     /\ event.op \in ReplaceOps
     /\ event.purge = "ok" /\ event.quit = "ok" /\ event.launch = "ok")
    => /\ event.res = "return"
       /\ event.ret = driver
       /\ driver \in alive

\* the configuration error of the repository
ConfigurationErrors == {"NotConfigured"}

\* C4: with neither executable_path nor command_executor set, replace_driver
\* fails with a configuration error and returns no session.
C4_NeitherPathIsConfigurationError ==
    (/\ conf.driver_name # "None" /\ NeitherPath
     /\ event.op \in {"__init__", "replace_driver"})
    => event.res = "raise" /\ event.err \in ConfigurationErrors

\* C5: when the purge or the quit of the live session being replaced fails,
\* replace_driver does not raise and returns a fresh live session.
C5_CleanupFailureSwallowed ==
    (/\ event.op = "replace_driver"
     /\ event.held # 0 /\ event.live
     /\ (event.purge = "raise" \/ event.quit # "ok")
     /\ event.launch = "ok")
    => /\ event.res = "return"
       /\ event.ret # event.held
       /\ driver = event.ret /\ driver \in alive

\* C6: spider_closed called when the held session is no longer alive (a
\* second call in a row included) raises nothing and changes nothing.
C6_TeardownIdempotent ==
    (event.op = "spider_closed" /\ event.session \notin event.before)
    => event.res = "return" /\ alive = event.before

\* C7: the session calls of a browser-fetch request are made in the order
\* sleep, add_cookie (in the mapping's order), get, until, screenshot,
\* execute_script, extraction, each at most once; the cookies are on the
\* session when navigation starts.
C7_StepsInOrder ==
    (event.op = "process_request" /\ event.loc.req.selenium)
    => /\ IsPrefix(event.loc.trace, ExpectedTrace(event.loc))
       /\ event.res = "return" => event.loc.trace = ExpectedTrace(event.loc)
       /\ (event.res = "blocked" /\ event.loc.pc = "get" /\ ~Dead)
            => Range(event.loc.req.cookies) \subseteq jar[driver]

\* C7 witness: a request with a delay, two cookies, a wait, a screenshot and
\* a script ran to its response.
C7_Witness ==
    /\ event.op = "process_request" /\ event.res = "return"
    /\ event.loc.req.selenium /\ event.loc.delay # 0
    /\ event.loc.req.cookies = <<"b", "a">>
    /\ event.loc.req.wait_until /\ event.loc.req.screenshot /\ event.loc.req.script

\* C8: a wait that times out makes process_request raise at the wait step:
\* no screenshot, no script, no extraction and no response follow, and the
\* session is alive and still the manager's.
C8_TimeoutStopsAtWait ==
    [][(event'.op = "process_request" /\ event'.err = "TimeoutException") =>
          /\ event'.res = "raise" /\ event'.value = "none"
          /\ event'.loc.trace # << >>
          /\ event'.loc.trace[Len(event'.loc.trace)] = Op("until", "")
          /\ event'.loc.meta = NoMeta
          /\ driver' = driver /\ alive' = alive /\ driver' \in alive'
          /\ jar' = jar /\ page' = page]_vars

\* C8 witness: a request that asked for a screenshot and a script timed out
\* in its wait.
C8_Witness ==
    /\ event.op = "process_request" /\ event.err = "TimeoutException"
    /\ event.loc.req.screenshot /\ event.loc.req.script
    /\ driver \in alive

\* C9: a script that raises fails that request only: no response is returned
\* and the session is neither terminated nor replaced nor reset, so it
\* stays the manager's live session.
C9_ScriptErrorKeepsSession ==
    [][(event'.op = "process_request" /\ event'.err = "JavascriptException") =>
          /\ event'.res = "raise" /\ event'.value = "none"
          /\ driver' = driver /\ alive' = alive /\ created' = created
          /\ driver' \in alive'
          /\ jar' = jar /\ page' = page
          /\ scriptErrOn' = driver']_vars

\* C9 witness: the request that follows a script error on the same session
\* completes with a response.
C9_Witness ==
    /\ event.op = "process_request" /\ event.value = "HtmlResponse"
    /\ event.prior # 0 /\ event.prior = event.session
    /\ event.resp.meta.driver = event.prior

\* C10: no step of process_request, whatever its outcome, changes the session
\* handle or the liveness of a session; only replace_driver (also within
\* construction) and spider_closed do.
C10_ExecutorLeavesSession ==
    [][/\ event'.op = "process_request" =>
            (driver' = driver /\ alive' = alive /\ created' = created)
       /\ (driver' # driver \/ alive' # alive) =>
            event'.op \in ReplaceOps \cup {"spider_closed"}]_vars

\* C10 witness: a call of process_request raised and the session it ran on is
\* alive and held.
C10_Witness ==
    /\ event.op = "process_request" /\ event.res = "raise"
    /\ event.session = driver /\ driver \in alive

C12_FailFastNotConfigured ==
    (event.op = "from_crawler" /\ (conf.driver_name = "None" \/ NeitherPath))
    => /\ event.res = "raise" /\ event.err \in ConfigurationErrors
       /\ phase = "failed" /\ builtBy = "none"
       /\ driver = 0 /\ created = 0 /\ alive = {}
       /\ ~connected

\* C12 witness: from_crawler refused settings that name a driver but give
\* neither path.
C12_Witness ==
    /\ event.op = "from_crawler" /\ event.err = "NotConfigured"
    /\ conf.driver_name # "None" /\ NeitherPath

\* the pages a navigation to u can end on
Loads(u) == {u, Redirected(u)}

\* C13: a response returned by process_request carries in meta['driver'] the
\* live session the manager holds when it is returned, and its URL and body
\* are current_url and page_source of that session after the request's own
\* navigation.
C13_ResponseFromHeldSession ==
    (event.op = "process_request" /\ event.value = "HtmlResponse")
    => /\ event.resp.meta.driver = driver /\ driver \in alive
       /\ event.resp.url = page[driver]
       /\ event.resp.url \in Loads(event.loc.req.url)
       /\ event.resp.body = Encode(event.resp.url)
       /\ event.resp.encoding = "utf-8"

\* C13 witness: a redirected request returned its response after an earlier
\* request had loaded another page in the same session.
C13_Witness ==
    /\ event.op = "process_request" /\ event.value = "HtmlResponse"
    /\ event.loc.req.url = "u2" /\ event.resp.url = Redirected("u2")
    /\ jar[driver] # {} /\ event.loc.req.cookies = << >>

\* C14: the meta of a returned response holds a screenshot exactly when the
\* request asked for one, and then it is the frame of the page the session
\* showed during that request.
C14_ScreenshotIffRequested ==
    (event.op = "process_request" /\ event.value = "HtmlResponse")
    => /\ (event.resp.meta.screenshot # << >>) = event.loc.req.screenshot
       /\ event.loc.req.screenshot =>
            event.resp.meta.screenshot = Png(event.resp.url)

\* C14 witness: a response with a screenshot, taken before the script ran.
C14_Witness ==
    /\ event.op = "process_request" /\ event.value = "HtmlResponse"
    /\ event.loc.req.screenshot /\ event.loc.req.script
    /\ event.resp.meta.screenshot = Png(page[driver])

\* C15: for every configured delay d (here in tenths of a second), the wait
\* before the first session call is 0 when d = 0, at least d without
\* randomization, and within [0.5 * d, 1.5 * d] with it.
C15_PacingHonoured ==
    (event.op = "process_request" /\ event.loc.req.selenium)
    => LET d == event.loc.settings.DOWNLOAD_DELAY
           w == event.loc.delay
       IN  /\ d = 0 => w = 0
           /\ (d > 0 /\ ~event.loc.settings.RANDOMIZE_DOWNLOAD_DELAY) => w >= d
           /\ (d > 0 /\ event.loc.settings.RANDOMIZE_DOWNLOAD_DELAY) =>
                (2 * w >= d /\ 2 * w <= 3 * d)
           /\ w > 0 => event.loc.trace[1] = Op("sleep", "")

\* C16 (as stated): a session exists only once a browser-fetch request or an
\* explicit replace call has been made; constructing the manager creates
\* none.
C16_NoSessionAtConstruction ==
    event.op \in {"__init__", "from_crawler"} => created = 0

\* C16 (amended): a session is created by the constructor, which ends in
\* replace_driver, and by each replace call, never by process_request; a
\* session stops being alive only in replace_driver or spider_closed.
C16_SessionLifecycle ==
    [][/\ created' # created =>
            (event'.op \in ReplaceOps /\ created' = created + 1
             /\ driver' = created' /\ alive' = (alive \ {driver}) \cup {driver'})
       /\ (event'.op \in {"__init__", "from_crawler"} /\ event'.res = "return") =>
            (created' = 1 /\ alive' = {1})
       /\ event'.op = "process_request" => (created' = created /\ alive' = alive)
       /\ ~(alive \subseteq alive') =>
            event'.op \in {"replace_driver", "spider_closed"}]_vars

\* C16 witness: a manager that has only passed a plain request through holds
\* a live session that has loaded nothing.
C16_Witness ==
    /\ event.op = "process_request" /\ ~event.loc.req.selenium
    /\ created = 1 /\ alive = {1} /\ driver = 1
    /\ page[1] = "blank" /\ jar[1] = {}

\* C17: replace_driver leaves its hook on the session it returns; called
\* through the hook of a session taken from a response's meta it purges and
\* quits the held session and the manager holds the new one, with the hook.
C17_HookReplacesSession ==
    [][/\ (event'.op \in ReplaceOps /\ event'.res = "return") =>
            (event'.ret = driver' /\ hook'[driver'])
       /\ (event'.op = "replace_driver" /\ event'.res = "return"
           /\ event'.via = "hook") =>
            /\ event'.ref = driver /\ event'.held = driver
            /\ driver \notin alive' /\ jar'[driver] = {}
            /\ driver' # driver /\ alive' = {driver'}
            /\ jar'[driver'] = {} /\ page'[driver'] = "blank"]_vars

\* C17 witness: a replacement made through the hook returned a new session
\* that carries the hook.
C17_Witness ==
    /\ event.op = "replace_driver" /\ event.via = "hook" /\ event.res = "return"
    /\ event.ref = event.held /\ driver = event.ret /\ driver # event.held
    /\ hook[driver]

\* C19 (as stated): from construction to the shutdown signal the handle the
\* middleware holds refers to a live session, whatever calls were made,
\* replace_driver calls whose session creation fails included.
C19_HandleAlwaysLive ==
    (phase = "ready" /\ lifecycle = "open") => driver \in alive

\* C20: no step of process_request removes a cookie from a session, whether
\* the call returns or raises; a session loses cookies only in
\* replace_driver, and the session replace_driver returns has none.
C20_CookiesStayUntilReplaced ==
    [][/\ event'.op = "process_request" =>
            \A s \in Sessions : jar[s] \subseteq jar'[s]
       /\ (\E s \in Sessions : ~(jar[s] \subseteq jar'[s])) =>
            event'.op = "replace_driver"
       /\ (event'.op \in ReplaceOps /\ event'.res = "return") =>
            jar'[driver'] = {}]_vars

\* C20 witness: a request that brings no cookies has been answered from a
\* session that still has the cookies of an earlier request.
C20_Witness ==
    /\ event.op = "process_request" /\ event.value = "HtmlResponse"
    /\ event.loc.req.cookies = << >>
    /\ event.session = driver
    /\ jar[driver] = {"a", "b"}

\* C18: nothing serializes the callers. A response of an execution during
\* which no other execution was in flight has the URL and body of the page
\* its own request loaded; two executions that interleave at the blocking
\* calls reach a state where one returns the page the other navigated to.
C18_AloneReadsOwnPage ==
    (event.op = "process_request" /\ event.value = "HtmlResponse" /\ event.loc.alone) =>
        /\ event.resp.url \in Loads(event.loc.req.url)
        /\ event.resp.body = Encode(event.resp.url)

\* C18 witness: an execution that overlapped another has returned a response
\* whose URL and body are those of the page the other request loaded.
C18_Witness ==
    /\ event.op = "process_request" /\ event.value = "HtmlResponse"
    /\ ~event.loc.alone
    /\ \E t \in ConcTasks :
         /\ event.loc.req.url = UrlOf(t)
         /\ \E u \in ConcTasks \ {t} :
              /\ event.resp.url \in Loads(UrlOf(u))
              /\ event.resp.body = Encode(event.resp.url)

====
